---- MODULE Spec2Model ----
(***************************************************************************)
(* A model of the outreach workflow of src/main.py                         *)
(* (OutreachOrchestrator.run and the methods it calls), with the parts of  *)
(* LinkedInAuth, MessageSender and OutreachLogger that the run drives.     *)
(* One run of the orchestrator is one behaviour: pc is the position of     *)
(* the single thread inside run().                                         *)
(***************************************************************************)
EXTENDS Integers, Sequences, FiniteSets, TLC

\* ---------------------------------------------------------------- bounds
MaxSetting == 1        \* largest number a settings file holds
MaxRows == 3           \* most data rows in a connections file
MaxConnections == 2    \* largest max_connections tried
MaxBase == 3           \* largest base_delay tried besides the default
MaxDelay == 8          \* largest max_delay tried besides the default
MaxAttempt == 10       \* largest retry attempt number
JitterGrain == 2       \* jitter draws are k/JitterGrain of the 0.1 range
MaxThrottle == 2       \* largest delay bound given to a Throttler
MaxSpeed == 2          \* largest typing speed tried besides the default
MaxLength == 2         \* largest message length tried besides the sample
DrawGrain == 2         \* random() draws are k/DrawGrain, k in 0..DrawGrain
MaxTemplateLen == 4    \* most symbols in a message template
MaxLogCalls == 4       \* most log_message_* calls made on one logger
MaxRecipients == 5     \* longest recipient list explored
MaxSessionLimit == 3   \* largest session_limit explored
MaxThreshold == 3      \* largest max_consecutive_failures explored

VARIABLES
    pc,            \* position of the thread inside run()
    dry_run,       \* argument of run()
    config,        \* self.config (loaded = FALSE while it is None)
    logger_ready,  \* self.logger is not None
    logs,          \* self.logger.logs
    recipients,    \* the list returned by _load_recipients
    session_file,  \* data/session.pkl exists
    auth,          \* self.auth: exists, driver, _authenticated
    messages_sent, \* self.messenger.messages_sent
    consecutive_failures, \* self.consecutive_failures
    idx,           \* enumerate index of the recipient in hand (0 before the loop)
    send_result,   \* (success, message, error) returned by send_message
    loop_exit,     \* how the for loop ended
    summary,       \* what print_summary printed
    raised,        \* exception handled by run's except clauses
    raised_at,     \* pc at which it was raised
    result,        \* return value of run()
    outcomes,      \* history: recipient and success flag of every send_message call
    last_outcome,  \* history: how the body of the latest send_message call ended
    waits,         \* history: number of wait_human_delay calls
    quit_count,    \* history: number of driver.quit() calls
    site_login,    \* history: what the site answered ("none", "ok", "failed")
    log_file,      \* the CSV file at self.logger.log_file
    log_calls,     \* history: status of every log_message_* call on a logger
    settings,      \* the values ConfigLoader.load hands to Config(...)
    csv_file,      \* data rows of the connections CSV file
    csv_max,       \* CSVHandler.max_connections
    csv_pos,       \* number of rows load_connections has taken from the reader
    csv_recipients, \* load_connections' recipients list
    csv_errors,    \* load_connections' errors list
    bk_base,       \* base_delay given to exponential_backoff
    bk_max,        \* max_delay given to exponential_backoff
    bk_prev,       \* history: the exponential_backoff call before the latest
    bk_last,       \* history: the latest exponential_backoff call
    throttler,     \* a Throttler's fields
    th_last,       \* history: the latest delay call on the throttler
    ph_template,   \* template given to PlaceholderReplacer
    ph_recipient,  \* recipient given to replace_placeholders
    ph_message,    \* what replace_placeholders returned
    ph_invalid     \* what validate_placeholders returned

vars == <<pc, dry_run, config, logger_ready, logs, recipients, session_file,
          auth, messages_sent, consecutive_failures, idx, send_result,
          loop_exit, summary, raised, raised_at, result, outcomes, last_outcome, waits,
          quit_count, site_login, log_file, log_calls, settings, csv_file,
          csv_max, csv_pos, csv_recipients, csv_errors, bk_base, bk_max,
          bk_prev, bk_last, throttler, th_last, ph_template, ph_recipient,
          ph_message, ph_invalid>>

\* The variables of the throttler and of the placeholder replacer
utilVars == <<throttler, th_last, ph_template, ph_recipient, ph_message,
              ph_invalid>>

\* The variables of the components exercised on their own (logger calls,
\* configuration validation, CSV loading, backoff): a run of the
\* orchestrator leaves them alone.
unitVars == <<log_calls, settings, csv_file, csv_max, csv_pos, csv_recipients,
              csv_errors, bk_base, bk_max, bk_prev, bk_last, utilVars>>

\* ------------------------------------------------------------ data model
NoConfig ==
    [loaded |-> FALSE, session_limit |-> 0, enable_circuit_breaker |-> FALSE,
     max_consecutive_failures |-> 0]

\* Config.__post_init__ checks neither session_limit nor
\* max_consecutive_failures, so a loaded configuration may carry any integer.
Configs ==
    [loaded : {TRUE},
     session_limit : (0 - 1)..MaxSessionLimit,
     enable_circuit_breaker : BOOLEAN,
     max_consecutive_failures : 0..MaxThreshold]

NoAuth == [exists |-> FALSE, driver |-> "none", authenticated |-> FALSE]

NoResult == [success |-> FALSE, message |-> FALSE, error |-> "unset"]

NoSummary == [emitted |-> FALSE, total |-> 0, sent |-> 0, failed |-> 0, skipped |-> 0]

SendOutcomes == {"sent", "nav_failed", "button_failed", "send_failed", "exception"}

\* The (success, message, error) tuple send_message returns for each way
\* its body can end; message is TRUE when a rendered message is returned.
SendResult(outcome) ==
    CASE outcome = "sent" ->
            [success |-> TRUE, message |-> TRUE, error |-> "none"]
      [] outcome = "nav_failed" ->
            [success |-> FALSE, message |-> TRUE, error |-> "Failed to navigate to profile"]
      [] outcome = "button_failed" ->
            [success |-> FALSE, message |-> TRUE, error |-> "Could not find message button"]
      [] outcome = "send_failed" ->
            [success |-> FALSE, message |-> TRUE, error |-> "Failed to send message"]
      [] outcome = "exception" ->
            [success |-> FALSE, message |-> FALSE, error |-> "str(e)"]

\* ------------------------------------------------------ pure helpers
SessionLimitReached_Strict(sent, limit) == sent > limit

\* main.py:170, the session-limit test at the head of an iteration
SessionLimitReached(sent, limit) == sent >= limit

CountSent_NoIncrement(sent, success) == sent

CountSent_Always(sent, success) == sent + 1

\* messenger.py:88, messages_sent after a send_message call
CountSent(sent, success) == IF success THEN sent + 1 ELSE sent

CheckCircuitBreaker_Strict(enabled, failures, threshold) ==
    IF ~enabled THEN FALSE ELSE failures > threshold

CheckCircuitBreaker_AnyFailure(enabled, failures, threshold) ==
    IF ~enabled THEN FALSE ELSE failures >= 1

\* OutreachOrchestrator._check_circuit_breaker
CheckCircuitBreaker(enabled, failures, threshold) ==
    IF ~enabled THEN FALSE ELSE failures >= threshold

NextFailures_NoReset(success, failures) ==
    IF success THEN failures ELSE failures + 1

NextFailures_NoIncrement(success, failures) ==
    IF success THEN 0 ELSE failures

\* main.py:185-190, the counter after a logged outcome
NextFailures(success, failures) == IF success THEN 0 ELSE failures + 1

\* log_message_sent / log_message_failed: the MessageLog built for a result
MakeLog(recipient, success) ==
    [recipient |-> recipient, status |-> IF success THEN "sent" ELSE "failed"]

\* log_message_skipped: the MessageLog it builds
MakeSkippedLog(recipient) == [recipient |-> recipient, status |-> "skipped"]

AddLog_DropFailed(ls, log) ==
    IF log.status = "failed" THEN ls ELSE Append(ls, log)

AddLog_Prepend(ls, log) == <<log>> \o ls

\* OutreachLogger._add_log, the in-memory part
AddLog(ls, log) == Append(ls, log)

ShouldWait_AfterFailure(i, n, success) == i < n

\* MessageLog.to_dict: the CSV row of a log record
ToDict(log) == [recipient_name |-> log.recipient, status |-> log.status]

\* OutreachLogger._ensure_log_file: the header row is written only when
\* the path does not exist
EnsureLogFile(f) ==
    IF ~f.exists THEN [exists |-> TRUE, header |-> TRUE, rows |-> << >>] ELSE f

\* OutreachLogger._write_log_to_file: open(..., 'a') and writerow
WriteLogToFile(f, log) ==
    [exists |-> TRUE, header |-> f.header, rows |-> Append(f.rows, ToDict(log))]

\* main.py:193, the test that guards wait_human_delay
ShouldWait(i, n, success) == i < n /\ success

\* sum(1 for log in self.logs if log.status == status)
CountStatus(ls, status) == Cardinality({k \in 1..Len(ls) : ls[k].status = status})

GetMessageCount(ls) == CountStatus(ls, "sent")

GetFailedCount_CountsSent(ls) == CountStatus(ls, "sent")

GetFailedCount(ls) == CountStatus(ls, "failed")

GetSkippedCount_CountsFailed(ls) == CountStatus(ls, "failed")

GetSkippedCount(ls) == CountStatus(ls, "skipped")

\* OutreachLogger.print_summary: the four numbers it prints
SummaryOf(ls) ==
    [emitted |-> TRUE, total |-> Len(ls), sent |-> GetMessageCount(ls),
     failed |-> GetFailedCount(ls), skipped |-> GetSkippedCount(ls)]

\* LinkedInAuth.is_authenticated
IsAuthenticated(a) == a.authenticated /\ a.driver # "none"

CleanupCloses_IfAuthenticated(a) == a.exists /\ a.authenticated

\* OutreachOrchestrator._cleanup: whether close() is called
CleanupCloses(a) == a.exists

CloseQuits_Never(a) == FALSE

\* LinkedInAuth.close: whether driver.quit() is called
CloseQuits(a) == a.driver # "none"

LoginReturns_AlwaysTrue(success) == TRUE

\* LinkedInAuth.authenticate, lines 48-54: what it returns after _login
LoginReturns(success) == success

\* ------------------------------------------------------------------ Init
\* The log file as the logger sees it: whether the path exists, whether
\* its first line is the header row, and its data rows.
AbsentFile == [exists |-> FALSE, header |-> FALSE, rows |-> << >>]

EmptyFile == [exists |-> TRUE, header |-> FALSE, rows |-> << >>]

NoSettings ==
    [email_ok |-> FALSE, password_ok |-> FALSE, templates |-> 0,
     daily_limit |-> 0, min_delay |-> 0, max_delay |-> 0, page_load_min |-> 0,
     page_load_max |-> 0, typing_speed |-> 0, session_limit |-> 0,
     max_consecutive_failures |-> 0, retry_attempts |-> 0]

NoCall == [attempt |-> 0, value |-> 0, called |-> FALSE]

NoThrottler ==
    [min_delay |-> 0, max_delay |-> 0, typing_speed |-> 0, page_load_min |-> 0,
     page_load_max |-> 0]

NoDelay ==
    [op |-> "none", length |-> 0, num |-> 0, den |-> 1, outcome |-> "none",
     slept |-> FALSE]

NoRecipient ==
    [first_name |-> << >>, last_name |-> << >>, company |-> << >>,
     position |-> << >>, location |-> << >>]

NotReturned == [returned |-> FALSE, value |-> << >>]

UtilsIdle ==
    /\ throttler = NoThrottler
    /\ th_last = NoDelay
    /\ ph_template = << >>
    /\ ph_recipient = NoRecipient
    /\ ph_message = NotReturned
    /\ ph_invalid = NotReturned

UnitsIdle ==
    /\ log_calls = << >>
    /\ settings = NoSettings
    /\ csv_file = << >>
    /\ csv_max = 0
    /\ csv_pos = 0
    /\ csv_recipients = << >>
    /\ csv_errors = << >>
    /\ bk_base = 0
    /\ bk_max = 0
    /\ bk_prev = NoCall
    /\ bk_last = NoCall
    /\ UtilsIdle

Init ==
    /\ pc = "load_config"
    /\ log_file = AbsentFile
    /\ UnitsIdle
    /\ dry_run \in BOOLEAN
    /\ config = NoConfig
    /\ logger_ready = FALSE
    /\ logs = << >>
    /\ recipients = << >>
    /\ session_file \in BOOLEAN
    /\ auth = NoAuth
    /\ messages_sent = 0
    /\ consecutive_failures = 0
    /\ idx = 0
    /\ send_result = NoResult
    /\ loop_exit = "none"
    /\ summary = NoSummary
    /\ raised = "none"
    /\ raised_at = "none"
    /\ result = "none"
    /\ outcomes = << >>
    /\ last_outcome = "none"
    /\ waits = 0
    /\ quit_count = 0
    /\ site_login = "none"

\* -------------------------------------------------- leaving run()'s try
Return_AlwaysTrue(v) ==
    /\ result' = "True"
    /\ pc' = "cleanup"
    /\ UNCHANGED <<raised, raised_at>>

\* `return v` inside the try block: the finally clause runs next.
Return(v) ==
    /\ result' = v
    /\ pc' = "cleanup"
    /\ UNCHANGED <<raised, raised_at>>

\* An exception reaching run's except clauses: both return False.
Raise(kind) ==
    /\ raised' = kind
    /\ raised_at' = pc
    /\ result' = "False"
    /\ pc' = "cleanup"

Goto(next) ==
    /\ pc' = next
    /\ UNCHANGED <<raised, raised_at, result>>

loopVars == <<messages_sent, consecutive_failures, idx, send_result, loop_exit,
              outcomes, last_outcome, waits, logs>>

envVars == <<dry_run, session_file, log_file, unitVars>>

\* ------------------------------------------------- run(), steps 1 to 4
\* Step 1, _load_configuration: ConfigLoader.load either yields a Config
\* or raises (missing file, missing section, Config.__post_init__), and
\* every exception is turned into `return False`.
LoadConfiguration ==
    /\ pc = "load_config"
    /\ \/ \E c \in Configs :
            /\ config' = c
            /\ Goto("init_components")
       \/ /\ config' = config
          /\ Return("False")
    /\ UNCHANGED <<envVars, logger_ready, recipients, auth, loopVars, summary,
                   quit_count, site_login>>

\* Step 2, _initialize_components: OutreachLogger.__init__ starts with an
\* empty logs list and creates the log file, which may raise OSError.
InitializeComponents ==
    /\ pc = "init_components"
    /\ \/ /\ logger_ready' = TRUE
          /\ log_file' = EnsureLogFile(log_file)
          /\ Goto("load_recipients")
       \/ /\ logger_ready' = FALSE
          /\ log_file' = log_file
          /\ Raise("Exception")
    /\ UNCHANGED <<dry_run, session_file, unitVars, config, recipients, auth,
                   loopVars, summary, quit_count, site_login>>

\* Step 3, _load_recipients and the `if not recipients` test; an exception
\* while loading yields the empty list. Step 4 branches on dry_run.
LoadRecipients ==
    /\ pc = "load_recipients"
    /\ \E n \in 0..MaxRecipients :
          /\ recipients' = [i \in 1..n |-> i]
          /\ IF n = 0
                THEN Return("False")
                ELSE IF dry_run THEN Goto("dry_run") ELSE Goto("authenticate")
    /\ UNCHANGED <<envVars, config, logger_ready, auth, loopVars, summary,
                   quit_count, site_login>>

\* _print_dry_run_info, then `return True`
PrintDryRunInfo ==
    /\ pc = "dry_run"
    /\ Return("True")
    /\ UNCHANGED <<envVars, config, logger_ready, recipients, auth, loopVars,
                   summary, quit_count, site_login>>

\* ------------------------------------------- step 5, _authenticate
\* self.auth = LinkedInAuth(...), then authenticate() calls _init_driver:
\* it raises before self.driver is assigned, or after (execute_script), or
\* it completes. authenticate() turns the exception into `return False`.
AuthInitDriver ==
    /\ pc = "authenticate"
    /\ \/ /\ auth' = [exists |-> TRUE, driver |-> "none", authenticated |-> FALSE]
          /\ Return("False")
       \/ /\ auth' = [exists |-> TRUE, driver |-> "open", authenticated |-> FALSE]
          /\ Return("False")
       \/ /\ auth' = [exists |-> TRUE, driver |-> "open", authenticated |-> FALSE]
          /\ Goto("auth_load_session")
    /\ UNCHANGED <<envVars, config, logger_ready, recipients, loopVars, summary,
                   quit_count, site_login>>

\* _load_session: False when the file is absent or unreadable
AuthLoadSession ==
    /\ pc = "auth_load_session"
    /\ \/ /\ session_file
          /\ Goto("auth_verify_session")
       \/ Goto("auth_login")
    /\ UNCHANGED <<envVars, config, logger_ready, recipients, auth, loopVars,
                   summary, quit_count, site_login>>

\* _verify_session: the feed page is shown, or it is not
AuthVerifySession ==
    /\ pc = "auth_verify_session"
    /\ \/ /\ auth' = [auth EXCEPT !.authenticated = TRUE]
          /\ site_login' = "ok"
          /\ Goto("send_setup")
       \/ /\ UNCHANGED <<auth, site_login>>
          /\ Goto("auth_login")
    /\ UNCHANGED <<envVars, config, logger_ready, recipients, loopVars, summary,
                   quit_count>>

\* _login, then _save_session (whose errors are swallowed) on success
AuthLogin ==
    /\ pc = "auth_login"
    /\ \E success \in BOOLEAN :
          /\ site_login' = IF success THEN "ok" ELSE "failed"
          /\ IF LoginReturns(success)
                THEN /\ session_file' \in {TRUE, session_file}
                     /\ auth' = [auth EXCEPT !.authenticated = TRUE]
                     /\ Goto("send_setup")
                ELSE /\ UNCHANGED <<session_file, auth>>
                     /\ Return("False")
    /\ UNCHANGED <<dry_run, log_file, unitVars, config, logger_ready,
                   recipients, loopVars, summary, quit_count>>

\* ------------------------------------------ step 6, _send_messages
setupVars == <<envVars, config, logger_ready, recipients, auth, summary,
               quit_count, site_login>>

\* Lines 158-163: MessageSender(driver=self.auth.get_driver(), ...);
\* get_driver raises RuntimeError unless is_authenticated().
SetupMessenger ==
    /\ pc = "send_setup"
    /\ IF IsAuthenticated(auth)
          THEN /\ messages_sent' = 0
               /\ Goto("loop_head")
          ELSE /\ messages_sent' = messages_sent
               /\ Raise("Exception")
    /\ UNCHANGED <<setupVars, consecutive_failures, idx, send_result,
                   loop_exit, outcomes, last_outcome, waits, logs>>

\* The for statement finds no further recipient.
LoopExhausted ==
    /\ pc = "loop_head"
    /\ idx = Len(recipients)
    /\ loop_exit' = "exhausted"
    /\ Goto("print_summary")
    /\ UNCHANGED <<setupVars, messages_sent, consecutive_failures, idx,
                   send_result, outcomes, last_outcome, waits, logs>>

\* Lines 170-172: break on the session limit
SessionLimitBreak ==
    /\ pc = "loop_head"
    /\ idx < Len(recipients)
    /\ SessionLimitReached(messages_sent, config.session_limit)
    /\ loop_exit' = "limit"
    /\ Goto("print_summary")
    /\ UNCHANGED <<setupVars, messages_sent, consecutive_failures, idx,
                   send_result, outcomes, last_outcome, waits, logs>>

\* Lines 175-177: break on the circuit breaker
CircuitBreakerBreak ==
    /\ pc = "loop_head"
    /\ idx < Len(recipients)
    /\ ~SessionLimitReached(messages_sent, config.session_limit)
    /\ CheckCircuitBreaker(config.enable_circuit_breaker, consecutive_failures,
                           config.max_consecutive_failures)
    /\ loop_exit' = "breaker"
    /\ Goto("print_summary")
    /\ UNCHANGED <<setupVars, messages_sent, consecutive_failures, idx,
                   send_result, outcomes, last_outcome, waits, logs>>

\* Both checks pass: the next recipient is taken in hand.
NextRecipient ==
    /\ pc = "loop_head"
    /\ idx < Len(recipients)
    /\ ~SessionLimitReached(messages_sent, config.session_limit)
    /\ ~CheckCircuitBreaker(config.enable_circuit_breaker, consecutive_failures,
                            config.max_consecutive_failures)
    /\ idx' = idx + 1
    /\ Goto("send_message")
    /\ UNCHANGED <<setupVars, messages_sent, consecutive_failures,
                   send_result, loop_exit, outcomes, last_outcome, waits, logs>>

\* MessageSender.send_message: the delivery attempt. Every way its body
\* ends, an Exception included, is returned as a tuple; only the success
\* path increments messages_sent.
SendMessage ==
    /\ pc = "send_message"
    /\ \E outcome \in SendOutcomes :
          /\ send_result' = SendResult(outcome)
          /\ messages_sent' = CountSent(messages_sent, send_result'.success)
          /\ outcomes' = Append(outcomes, [recipient |-> recipients[idx],
                                           success |-> outcome = "sent"])
          /\ last_outcome' = outcome
    /\ Goto("log_result")
    /\ UNCHANGED <<setupVars, consecutive_failures, idx, loop_exit, waits, logs>>

\* Lines 185-190: log the outcome, then update the failure counter.
\* _add_log appends to logs before it writes the file; when the write
\* raises, the exception leaves the loop before the counter is touched.
LogResult ==
    /\ pc = "log_result"
    /\ logs' = AddLog(logs, MakeLog(recipients[idx], send_result.success))
    /\ \/ /\ log_file' =
                WriteLogToFile(log_file, MakeLog(recipients[idx], send_result.success))
          /\ consecutive_failures' =
                NextFailures(send_result.success, consecutive_failures)
          /\ Goto("pace")
       \/ /\ log_file' = log_file
          /\ consecutive_failures' = consecutive_failures
          /\ Raise("Exception")
    /\ UNCHANGED <<dry_run, session_file, unitVars, config, logger_ready,
                   recipients, auth, summary, quit_count, site_login,
                   messages_sent, idx, send_result, loop_exit, outcomes,
                   last_outcome, waits>>

\* Lines 193-194: wait_human_delay after a success that is not the last
WaitHumanDelay ==
    /\ pc = "pace"
    /\ ShouldWait(idx, Len(recipients), send_result.success)
    /\ waits' = waits + 1
    /\ Goto("loop_head")
    /\ UNCHANGED <<setupVars, messages_sent, consecutive_failures, idx,
                   send_result, loop_exit, outcomes, last_outcome, logs>>

NoWait ==
    /\ pc = "pace"
    /\ ~ShouldWait(idx, Len(recipients), send_result.success)
    /\ Goto("loop_head")
    /\ UNCHANGED <<setupVars, loopVars>>

\* ------------------------------------------------ step 7 and the exits
\* print_summary, export_logs, `return True`
PrintSummary ==
    /\ pc = "print_summary"
    /\ summary' = SummaryOf(logs)
    /\ Return("True")
    /\ UNCHANGED <<envVars, config, logger_ready, recipients, auth, loopVars,
                   quit_count, site_login>>

\* KeyboardInterrupt anywhere inside run's try block: it is no Exception,
\* so no inner handler catches it; run prints a notice and returns False.
InTry == pc \notin {"cleanup", "done"}

Interrupt ==
    /\ InTry
    /\ Raise("KeyboardInterrupt")
    /\ UNCHANGED <<setupVars, loopVars>>

\* finally: _cleanup, and in it LinkedInAuth.close
Cleanup ==
    /\ pc = "cleanup"
    /\ IF CleanupCloses(auth) /\ CloseQuits(auth)
          THEN /\ quit_count' = quit_count + 1
               /\ auth' = [auth EXCEPT !.driver = "quit", !.authenticated = FALSE]
          ELSE UNCHANGED <<quit_count, auth>>
    /\ pc' = "done"
    /\ UNCHANGED <<envVars, config, logger_ready, recipients, loopVars, summary,
                   raised, raised_at, result, site_login>>

Next ==
    \/ LoadConfiguration
    \/ InitializeComponents
    \/ LoadRecipients
    \/ PrintDryRunInfo
    \/ AuthInitDriver
    \/ AuthLoadSession
    \/ AuthVerifySession
    \/ AuthLogin
    \/ SetupMessenger
    \/ LoopExhausted
    \/ SessionLimitBreak
    \/ CircuitBreakerBreak
    \/ NextRecipient
    \/ SendMessage
    \/ LogResult
    \/ WaitHumanDelay
    \/ NoWait
    \/ PrintSummary
    \/ Interrupt
    \/ Cleanup

Spec == Init /\ [][Next]_vars

TypeOK ==
    /\ config \in Configs \cup {NoConfig}
    /\ Len(logs) <= MaxRecipients
    /\ quit_count \in 0..2
    /\ result \in {"none", "True", "False"}

\* =================================================================
\* OutreachLogger on its own: construction, then any sequence of
\* log_message_sent / log_message_failed / log_message_skipped calls.
\* =================================================================
runVars == <<dry_run, config, recipients, session_file, auth, messages_sent,
             consecutive_failures, idx, send_result, loop_exit, summary, raised,
             raised_at, result, outcomes, last_outcome, waits, quit_count,
             site_login>>

\* The orchestrator's own variables as __init__ leaves them.
RunIdle ==
    /\ dry_run = FALSE
    /\ config = NoConfig
    /\ recipients = << >>
    /\ session_file = FALSE
    /\ auth = NoAuth
    /\ messages_sent = 0
    /\ consecutive_failures = 0
    /\ idx = 0
    /\ send_result = NoResult
    /\ loop_exit = "none"
    /\ summary = NoSummary
    /\ raised = "none"
    /\ raised_at = "none"
    /\ result = "none"
    /\ outcomes = << >>
    /\ last_outcome = "none"
    /\ waits = 0
    /\ quit_count = 0
    /\ site_login = "none"

\* A file left by an earlier session: header row and one data row.
OldRow == [recipient_name |-> 0, status |-> "sent"]

OldFile == [exists |-> TRUE, header |-> TRUE, rows |-> << OldRow >>]

LogRecipients == {1, 2}

InitLogger ==
    /\ pc = "logger_new"
    /\ RunIdle
    /\ UnitsIdle
    /\ logger_ready = FALSE
    /\ logs = << >>
    /\ log_file \in {AbsentFile, EmptyFile, OldFile}

loggerFrame == <<runVars, settings, csv_file, csv_max, csv_pos, csv_recipients,
                 csv_errors, bk_base, bk_max, bk_prev, bk_last, utilVars>>

\* OutreachLogger.__init__
LoggerConstruct ==
    /\ pc = "logger_new"
    /\ logs' = << >>
    /\ log_file' = EnsureLogFile(log_file)
    /\ logger_ready' = TRUE
    /\ pc' = "logger_ready"
    /\ UNCHANGED <<loggerFrame, log_calls>>

\* _add_log: append to self.logs, then append the row to the file
AddLogCall(log) ==
    /\ pc = "logger_ready"
    /\ Len(log_calls) < MaxLogCalls
    /\ logs' = AddLog(logs, log)
    /\ log_file' = WriteLogToFile(log_file, log)
    /\ log_calls' = Append(log_calls, log.status)
    /\ UNCHANGED <<loggerFrame, pc, logger_ready>>

LogMessageSent == \E r \in LogRecipients : AddLogCall(MakeLog(r, TRUE))

LogMessageFailed == \E r \in LogRecipients : AddLogCall(MakeLog(r, FALSE))

LogMessageSkipped == \E r \in LogRecipients : AddLogCall(MakeSkippedLog(r))

NextLogger ==
    \/ LoggerConstruct
    \/ LogMessageSent
    \/ LogMessageFailed
    \/ LogMessageSkipped

SpecLogger == InitLogger /\ [][NextLogger]_vars

\* =================================================================
\* Configuration loading on its own: what .env and settings.yaml hold,
\* Config.__post_init__ on it, then run() up to component initialisation.
\* =================================================================
\* The values ConfigLoader.load passes to Config(...). The two credentials
\* are kept as the outcome of their tests; templates is the list's length.
RawSettings ==
    [email_ok : BOOLEAN,
     password_ok : BOOLEAN,
     templates : {0, MaxSetting},
     daily_limit : {0, MaxSetting},
     min_delay : (0 - 1)..MaxSetting,
     max_delay : (0 - 1)..MaxSetting,
     page_load_min : (0 - 1)..MaxSetting,
     page_load_max : (0 - 1)..MaxSetting,
     typing_speed : {0, MaxSetting},
     session_limit : {0 - 1, MaxSetting},
     max_consecutive_failures : {0, MaxSetting},
     retry_attempts : {0 - 1, MaxSetting}]

\* Config.__post_init__ returns without raising ValueError
PostInit(s) ==
    /\ s.email_ok
    /\ s.password_ok
    /\ s.templates # 0
    /\ s.daily_limit > 0
    /\ ~(s.min_delay < 0 \/ s.max_delay < s.min_delay)

\* The Config object as the orchestrator reads it
ConfigOf(s) ==
    [loaded |-> TRUE, session_limit |-> s.session_limit,
     enable_circuit_breaker |-> TRUE,
     max_consecutive_failures |-> s.max_consecutive_failures]

InitConfig ==
    /\ pc = "load_config"
    /\ RunIdle
    /\ logger_ready = FALSE
    /\ logs = << >>
    /\ log_file = AbsentFile
    /\ log_calls = << >>
    /\ settings \in RawSettings
    /\ csv_file = << >>
    /\ csv_max = 0
    /\ csv_pos = 0
    /\ csv_recipients = << >>
    /\ csv_errors = << >>
    /\ bk_base = 0
    /\ bk_max = 0
    /\ bk_prev = NoCall
    /\ bk_last = NoCall
    /\ UtilsIdle

\* _load_configuration with the settings at hand: ValueError from
\* __post_init__ becomes `return False`.
LoadConfigurationFrom ==
    /\ pc = "load_config"
    /\ IF PostInit(settings)
          THEN /\ config' = ConfigOf(settings)
               /\ Goto("init_components")
          ELSE /\ config' = config
               /\ Return("False")
    /\ UNCHANGED <<envVars, logger_ready, recipients, auth, loopVars, summary,
                   quit_count, site_login>>

NextConfig ==
    \/ LoadConfigurationFrom
    \/ InitializeComponents
    \/ Cleanup

SpecConfig == InitConfig /\ [][NextConfig]_vars

\* =================================================================
\* CSVHandler.load_connections on its own, one reader row per step, on a
\* file whose header has first_name, last_name and profile_url.
\* =================================================================
\* restval of csv.DictReader: the value of a field a short row lacks
None == "<None>"

UrlAnn == "https://www.linkedin.com/in/ann-lee"

UrlBob == "http://linkedin.com/in/bob_ray/"

UrlBobPadded == " http://linkedin.com/in/bob_ray/ "

UrlOther == "https://example.com/in/ann-lee"

\* str.strip on the sample strings
Strip_Identity(v) == v

Strip(v) ==
    CASE v = "  " -> ""
      [] v = " Bob " -> "Bob"
      [] v = " Ray " -> "Ray"
      [] v = UrlBobPadded -> UrlBob
      [] OTHER -> v

\* Recipient._is_valid_url: the sample strings the pattern matches
IsValidUrl(url) == url \in {UrlAnn, UrlBob}

\* `v.strip() if v else ''` of _parse_row
Cleaned(v) == IF v = None \/ v = "" THEN "" ELSE Strip(v)

\* A reader row: the three required fields, and whether the line has more
\* fields than the header (DictReader files them as a list under None).
SampleRows ==
    { [first_name |-> "Ann", last_name |-> "Lee", profile_url |-> UrlAnn,
       surplus |-> FALSE],
      [first_name |-> " Bob ", last_name |-> " Ray ",
       profile_url |-> UrlBobPadded, surplus |-> FALSE],
      [first_name |-> "", last_name |-> "Lee", profile_url |-> UrlAnn,
       surplus |-> FALSE],
      [first_name |-> "Ann", last_name |-> "  ", profile_url |-> UrlAnn,
       surplus |-> FALSE],
      [first_name |-> "Ann", last_name |-> "Lee", profile_url |-> None,
       surplus |-> FALSE],
      [first_name |-> "Ann", last_name |-> "Lee", profile_url |-> UrlOther,
       surplus |-> FALSE],
      [first_name |-> "Ann", last_name |-> "Lee", profile_url |-> UrlAnn,
       surplus |-> TRUE] }

\* Recipient.__post_init__ on cleaned fields: the ValueError raised, if any
RecipientError(first, last, url) ==
    IF first = "" \/ Strip(first) = "" THEN "First name is required"
    ELSE IF last = "" \/ Strip(last) = "" THEN "Last name is required"
    ELSE IF url = "" \/ Strip(url) = "" THEN "Profile URL is required"
    ELSE IF ~IsValidUrl(url) THEN "Invalid LinkedIn profile URL"
    ELSE "none"

\* CSVHandler._parse_row: (recipient, None) or (None, error)
ParseRow(row, row_num) ==
    IF row.surplus
       THEN [ok |-> FALSE, row |-> row_num, error |-> "Unexpected error"]
       ELSE LET first == Cleaned(row.first_name)
                last == Cleaned(row.last_name)
                url == Cleaned(row.profile_url)
                err == RecipientError(first, last, url)
            IN  IF err = "none"
                   THEN [ok |-> TRUE,
                         recipient |-> [first_name |-> first, last_name |-> last,
                                        profile_url |-> url]]
                   ELSE [ok |-> FALSE, row |-> row_num, error |-> err]

\* `len(recipients) >= self.max_connections`
MaxReached_Strict(n, max) == n > max

MaxReached(n, max) == n >= max

csvFrame == <<runVars, logger_ready, logs, log_file, log_calls, settings,
              bk_base, bk_max, bk_prev, bk_last, csv_file, csv_max, utilVars>>

InitCsv ==
    /\ pc = "csv_loop"
    /\ RunIdle
    /\ logger_ready = FALSE
    /\ logs = << >>
    /\ log_file = AbsentFile
    /\ log_calls = << >>
    /\ settings = NoSettings
    /\ csv_file \in UNION {[1..n -> SampleRows] : n \in 0..MaxRows}
    /\ csv_max \in (0 - 1)..MaxConnections
    /\ csv_pos = 0
    /\ csv_recipients = << >>
    /\ csv_errors = << >>
    /\ bk_base = 0
    /\ bk_max = 0
    /\ bk_prev = NoCall
    /\ bk_last = NoCall
    /\ UtilsIdle

\* One pass of the for loop that does not break
CsvParseRow ==
    /\ pc = "csv_loop"
    /\ csv_pos < Len(csv_file)
    /\ ~MaxReached(Len(csv_recipients), csv_max)
    /\ LET parsed == ParseRow(csv_file[csv_pos + 1], csv_pos + 1)
       IN  IF parsed.ok
              THEN /\ csv_recipients' = Append(csv_recipients, parsed.recipient)
                   /\ csv_errors' = csv_errors
              ELSE /\ csv_errors' = Append(csv_errors,
                                      [row |-> parsed.row, error |-> parsed.error])
                   /\ csv_recipients' = csv_recipients
    /\ csv_pos' = csv_pos + 1
    /\ UNCHANGED <<csvFrame, pc>>

\* The break at max_connections
CsvTruncate ==
    /\ pc = "csv_loop"
    /\ csv_pos < Len(csv_file)
    /\ MaxReached(Len(csv_recipients), csv_max)
    /\ pc' = "csv_done"
    /\ UNCHANGED <<csvFrame, csv_pos, csv_recipients, csv_errors>>

\* The reader is exhausted
CsvEndOfFile ==
    /\ pc = "csv_loop"
    /\ csv_pos = Len(csv_file)
    /\ pc' = "csv_done"
    /\ UNCHANGED <<csvFrame, csv_pos, csv_recipients, csv_errors>>

NextCsv ==
    \/ CsvParseRow
    \/ CsvTruncate
    \/ CsvEndOfFile

SpecCsv == InitCsv /\ [][NextCsv]_vars

\* =================================================================
\* Throttler.exponential_backoff on its own: calls with any attempt and
\* any jitter draw; the last two calls are kept. Returned values are in
\* units of 1/Scale second so that they stay integers.
\* =================================================================
DefaultBaseDelay == 5

DefaultMaxDelay == 300

Scale == 10 * JitterGrain

\* `min(base_delay * (2 ** attempt), max_delay)`
RawDelay_NoCap(attempt, base_delay, max_delay) == base_delay * (2 ^ attempt)

RawDelay_Floor(attempt, base_delay, max_delay) ==
    IF base_delay * (2 ^ attempt) > max_delay
       THEN base_delay * (2 ^ attempt) ELSE max_delay

RawDelay(attempt, base_delay, max_delay) ==
    IF base_delay * (2 ^ attempt) < max_delay
       THEN base_delay * (2 ^ attempt) ELSE max_delay

\* `delay * random.uniform(0, 0.1)` with the draw 0.1 * k / JitterGrain
JitterOf_Wide(delay, k) == delay * k * 20

JitterOf(delay, k) == delay * k

\* exponential_backoff: `delay + jitter`
ExponentialBackoffValue(attempt, base_delay, max_delay, k) ==
    RawDelay(attempt, base_delay, max_delay) * Scale
       + JitterOf(RawDelay(attempt, base_delay, max_delay), k)

InitBackoff ==
    /\ pc = "backoff"
    /\ RunIdle
    /\ logger_ready = FALSE
    /\ logs = << >>
    /\ log_file = AbsentFile
    /\ log_calls = << >>
    /\ settings = NoSettings
    /\ csv_file = << >>
    /\ csv_max = 0
    /\ csv_pos = 0
    /\ csv_recipients = << >>
    /\ csv_errors = << >>
    /\ \/ bk_base \in 1..MaxBase /\ bk_max \in 1..MaxDelay
       \/ bk_base = DefaultBaseDelay /\ bk_max = DefaultMaxDelay
    /\ bk_prev = NoCall
    /\ bk_last = NoCall
    /\ UtilsIdle

ExponentialBackoff ==
    /\ pc = "backoff"
    /\ \E attempt \in 0..MaxAttempt, k \in 0..JitterGrain :
          bk_last' = [attempt |-> attempt,
                      value |-> ExponentialBackoffValue(attempt, bk_base, bk_max, k),
                      called |-> TRUE]
    /\ bk_prev' = bk_last
    /\ UNCHANGED <<runVars, pc, logger_ready, logs, log_file, log_calls, settings,
                   csv_file, csv_max, csv_pos, csv_recipients, csv_errors,
                   bk_base, bk_max, utilVars>>

NextBackoff == ExponentialBackoff

SpecBackoff == InitBackoff /\ [][NextBackoff]_vars

\* =================================================================
\* Throttler on its own: the three delay functions and their blocking
\* wait_ forms. A delay is the fraction num/den of a second.
\* =================================================================
DefaultTypingSpeed == 5

SampleLength == 100

\* random.uniform(a, b) = a + (b - a) * random(), times DrawGrain
UniformNum_Overshoot(a, b, k) == a * DrawGrain + (b - a) * k + k

UniformNum(a, b, k) == a * DrawGrain + (b - a) * k

\* random.uniform(-0.2, 0.2), times 5 * DrawGrain
VarianceNum_Wide(k) == UniformNum(0 - 6, 6, k)

VarianceNum(k) == UniformNum(0 - 1, 1, k)

\* `message_length / self.typing_speed` raises ZeroDivisionError
DivisionByZero_Unchecked(speed) == FALSE

DivisionByZero(speed) == speed = 0

Returned(op, length, num, den) ==
    [op |-> op, length |-> length, num |-> num, den |-> den,
     outcome |-> "returned", slept |-> FALSE]

\* Throttler.human_delay
HumanDelayValue(t, k) ==
    Returned("human_delay", 0, UniformNum(t.min_delay, t.max_delay, k), DrawGrain)

\* Throttler.page_load_delay
PageLoadDelayValue(t, k) ==
    Returned("page_load_delay", 0,
             UniformNum(t.page_load_min, t.page_load_max, k), DrawGrain)

\* Throttler.typing_delay: base_delay + base_delay * uniform(-0.2, 0.2)
TypingDelayValue(t, length, k) ==
    IF DivisionByZero(t.typing_speed)
       THEN [op |-> "typing_delay", length |-> length, num |-> 0, den |-> 1,
             outcome |-> "ZeroDivisionError", slept |-> FALSE]
       ELSE Returned("typing_delay", length,
                     length * 5 * DrawGrain + length * VarianceNum(k),
                     t.typing_speed * 5 * DrawGrain)

\* wait_*: the delay is computed first; time.sleep runs only if it returned
Wait(call, op) ==
    [call EXCEPT !.op = op, !.slept = (call.outcome = "returned")]

Throttlers ==
    [min_delay : 0..MaxThrottle,
     max_delay : 0..MaxThrottle,
     typing_speed : 0..MaxSpeed \cup {DefaultTypingSpeed},
     page_load_min : 0..MaxThrottle,
     page_load_max : 0..MaxThrottle]

Lengths == 0..MaxLength \cup {SampleLength}

InitThrottler ==
    /\ pc = "throttler"
    /\ RunIdle
    /\ logger_ready = FALSE
    /\ logs = << >>
    /\ log_file = AbsentFile
    /\ log_calls = << >>
    /\ settings = NoSettings
    /\ csv_file = << >>
    /\ csv_max = 0
    /\ csv_pos = 0
    /\ csv_recipients = << >>
    /\ csv_errors = << >>
    /\ bk_base = 0
    /\ bk_max = 0
    /\ bk_prev = NoCall
    /\ bk_last = NoCall
    /\ throttler \in Throttlers
    /\ th_last = NoDelay
    /\ ph_template = << >>
    /\ ph_recipient = NoRecipient
    /\ ph_message = NotReturned
    /\ ph_invalid = NotReturned

throttlerFrame == <<runVars, pc, logger_ready, logs, log_file, log_calls,
                    settings, csv_file, csv_max, csv_pos, csv_recipients,
                    csv_errors, bk_base, bk_max, bk_prev, bk_last, throttler,
                    ph_template, ph_recipient, ph_message, ph_invalid>>

ThrottlerCall(call) ==
    /\ pc = "throttler"
    /\ th_last' = call
    /\ UNCHANGED throttlerFrame

HumanDelay == \E k \in 0..DrawGrain : ThrottlerCall(HumanDelayValue(throttler, k))

PageLoadDelay ==
    \E k \in 0..DrawGrain : ThrottlerCall(PageLoadDelayValue(throttler, k))

TypingDelay ==
    \E n \in Lengths, k \in 0..DrawGrain :
       ThrottlerCall(TypingDelayValue(throttler, n, k))

WaitHumanDelayCall ==
    \E k \in 0..DrawGrain :
       ThrottlerCall(Wait(HumanDelayValue(throttler, k), "wait_human_delay"))

WaitPageLoad ==
    \E k \in 0..DrawGrain :
       ThrottlerCall(Wait(PageLoadDelayValue(throttler, k), "wait_page_load"))

WaitTypingDelay ==
    \E n \in Lengths, k \in 0..DrawGrain :
       ThrottlerCall(Wait(TypingDelayValue(throttler, n, k), "wait_typing_delay"))

NextThrottler ==
    \/ HumanDelay
    \/ PageLoadDelay
    \/ TypingDelay
    \/ WaitHumanDelayCall
    \/ WaitPageLoad
    \/ WaitTypingDelay

SpecThrottler == InitThrottler /\ [][NextThrottler]_vars

\* =================================================================
\* PlaceholderReplacer on its own. A string is a sequence of symbols: the
\* two braces, a space, and words (maximal runs of \w characters) taken
\* as single symbols.
\* =================================================================
SUPPORTED_PLACEHOLDERS_NoCompany ==
    {"first_name", "last_name", "position", "location"}

SUPPORTED_PLACEHOLDERS ==
    {"first_name", "last_name", "company", "position", "location"}

TemplateSymbols == {"{", "}", " ", "first_name", "company", "foo"}

\* \w: every symbol but the braces and the space
IsWord(c) == c \notin {"{", "}", " "}

\* Recipients; an optional field that is None or '' is the empty sequence
\* (`recipient.company or 'your company'` treats both alike).
SampleRecipients ==
    { [first_name |-> <<"John">>, last_name |-> <<"Doe">>,
       company |-> <<"TechCorp">>, position |-> <<"Engineer">>,
       location |-> <<"SF">>],
      [first_name |-> <<"John">>, last_name |-> <<"Doe">>,
       company |-> << >>, position |-> << >>, location |-> << >>],
      [first_name |-> <<"{", "company", "}">>, last_name |-> <<"Doe">>,
       company |-> <<"TechCorp">>, position |-> << >>, location |-> << >>],
      [first_name |-> <<"John">>, last_name |-> <<"Doe">>,
       company |-> <<"{", "first_name", "}">>, position |-> << >>,
       location |-> << >>] }

\* `x or default`
OrDefault(x, default) == IF x = << >> THEN default ELSE x

\* str.replace(pattern, value) for pattern = '{' + placeholder + '}'
RECURSIVE StrReplace(_, _, _)
StrReplace(message, placeholder, value) ==
    IF message = << >> THEN << >>
    ELSE IF /\ Len(message) >= 3
            /\ SubSeq(message, 1, 3) = <<"{", placeholder, "}">>
         THEN value \o StrReplace(SubSeq(message, 4, Len(message)),
                                  placeholder, value)
         ELSE <<Head(message)>> \o StrReplace(Tail(message), placeholder, value)

\* replace_placeholders: the loop over replacements.items(), in dict order
ReplacePlaceholdersValue(template, recipient) ==
    LET m1 == StrReplace(template, "first_name", recipient.first_name)
        m2 == StrReplace(m1, "last_name", recipient.last_name)
        m3 == StrReplace(m2, "company",
                         OrDefault(recipient.company, <<"your", " ", "company">>))
        m4 == StrReplace(m3, "position",
                         OrDefault(recipient.position, <<"your", " ", "field">>))
    IN  StrReplace(m4, "location",
                   OrDefault(recipient.location, <<"your", " ", "area">>))

\* Length of the longest run of word symbols at the head of s
RECURSIVE WordRun(_)
WordRun(s) ==
    IF s = << >> \/ ~IsWord(Head(s)) THEN 0 ELSE 1 + WordRun(Tail(s))

\* re.findall(r'\{(\w+)\}', template): the names, left to right
RECURSIVE FindAll(_)
FindAll(template) ==
    IF template = << >> THEN << >>
    ELSE LET n == WordRun(Tail(template))
         IN  IF /\ Head(template) = "{"
                /\ n >= 1
                /\ Len(template) >= n + 2
                /\ template[n + 2] = "}"
                THEN <<SubSeq(template, 2, n + 1)>>
                        \o FindAll(SubSeq(template, n + 3, Len(template)))
                ELSE FindAll(Tail(template))

\* `p not in PlaceholderReplacer.SUPPORTED_PLACEHOLDERS`
NotSupported(name) == ~(Len(name) = 1 /\ name[1] \in SUPPORTED_PLACEHOLDERS)

\* validate_placeholders
ValidatePlaceholdersValue(template) == SelectSeq(FindAll(template), NotSupported)

InitPlaceholders ==
    /\ pc = "placeholders"
    /\ RunIdle
    /\ logger_ready = FALSE
    /\ logs = << >>
    /\ log_file = AbsentFile
    /\ log_calls = << >>
    /\ settings = NoSettings
    /\ csv_file = << >>
    /\ csv_max = 0
    /\ csv_pos = 0
    /\ csv_recipients = << >>
    /\ csv_errors = << >>
    /\ bk_base = 0
    /\ bk_max = 0
    /\ bk_prev = NoCall
    /\ bk_last = NoCall
    /\ throttler = NoThrottler
    /\ th_last = NoDelay
    /\ ph_template \in UNION {[1..n -> TemplateSymbols] : n \in 0..MaxTemplateLen}
    /\ ph_recipient \in SampleRecipients
    /\ ph_message = NotReturned
    /\ ph_invalid = NotReturned

placeholdersFrame == <<runVars, pc, logger_ready, logs, log_file, log_calls,
                       settings, csv_file, csv_max, csv_pos, csv_recipients,
                       csv_errors, bk_base, bk_max, bk_prev, bk_last, throttler,
                       th_last, ph_template, ph_recipient>>

ReplacePlaceholders ==
    /\ pc = "placeholders"
    /\ ~ph_message.returned
    /\ ph_message' = [returned |-> TRUE,
                      value |-> ReplacePlaceholdersValue(ph_template, ph_recipient)]
    /\ UNCHANGED <<placeholdersFrame, ph_invalid>>

ValidatePlaceholders ==
    /\ pc = "placeholders"
    /\ ~ph_invalid.returned
    /\ ph_invalid' = [returned |-> TRUE,
                      value |-> ValidatePlaceholdersValue(ph_template)]
    /\ UNCHANGED <<placeholdersFrame, ph_message>>

NextPlaceholders ==
    \/ ReplacePlaceholders
    \/ ValidatePlaceholders

SpecPlaceholders == InitPlaceholders /\ [][NextPlaceholders]_vars

\* ------------------------------------------------- history operators
\* Read off the history variables only, never off the program's counters.
Attempted == {outcomes[k].recipient : k \in 1..Len(outcomes)}

Logged(ls) == {ls[k].recipient : k \in 1..Len(ls)}

Successes(h) == Cardinality({k \in 1..Len(h) : h[k].success})

RECURSIVE TrailingFailures(_)
TrailingFailures(h) ==
    IF h = << >> \/ h[Len(h)].success
       THEN 0
       ELSE 1 + TrailingFailures(SubSeq(h, 1, Len(h) - 1))

AllSucceeded(h) == \A k \in 1..Len(h) : h[k].success

\* ------------------------------------------------------------------- C1
\* C1: with session_limit >= 0 the number of successful deliveries never
\* exceeds session_limit, and from any state in which that number has
\* reached session_limit no step makes a delivery attempt or logs a
\* recipient other than those already attempted.
C1_LimitStep ==
    (config.loaded /\ Successes(outcomes) >= config.session_limit)
        => /\ outcomes' = outcomes
           /\ Logged(logs') \subseteq Attempted
           /\ Len(logs') <= Len(outcomes)

C1_SessionLimit ==
    /\ [](config.loaded /\ config.session_limit >= 0
            => Successes(outcomes) <= config.session_limit)
    /\ [][C1_LimitStep]_vars

\* The limit has stopped the loop with recipients left over.
C1_Witness ==
    /\ loop_exit = "limit"
    /\ config.session_limit >= 1
    /\ Successes(outcomes) = config.session_limit
    /\ idx < Len(recipients)
    /\ Len(logs) = idx

\* ------------------------------------------------------------------- C2
\* C2 as stated: once the loop over 5 recipients with session_limit = 3
\* has ended, exactly 3 attempts were made and logged.
C2_ExactlyThreeAttempts ==
    (loop_exit # "none" /\ Len(recipients) = 5 /\ config.session_limit = 3)
        => Len(outcomes) = 3 /\ Len(logs) = 3

\* C2 amended: once the loop over 5 recipients with session_limit = 3 has
\* ended, at most 3 deliveries succeeded, and when no attempt failed (and
\* the breaker is disabled or its threshold is at least 1, so that it is
\* not open before the first attempt) the loop ended on the limit after
\* exactly 3 attempts, recipients 4 and 5 being neither attempted nor
\* logged.
C2_ThreeWhenAllSucceed ==
    (loop_exit # "none" /\ Len(recipients) = 5 /\ config.session_limit = 3)
        => /\ Successes(outcomes) <= 3
           /\ ( /\ AllSucceeded(outcomes)
                /\ (~config.enable_circuit_breaker
                      \/ config.max_consecutive_failures >= 1) )
                => /\ loop_exit = "limit"
                   /\ Len(outcomes) = 3
                   /\ Attempted = {recipients[1], recipients[2], recipients[3]}
                   /\ Logged(logs) = Attempted
                   /\ Len(logs) = 3

C2_Witness ==
    /\ loop_exit = "limit"
    /\ Len(recipients) = 5
    /\ config.session_limit = 3
    /\ AllSucceeded(outcomes)
    /\ Len(outcomes) = 3

\* ------------------------------------------------------------------- C3
\* C3: with the breaker enabled and threshold T >= 1, no step makes a
\* delivery attempt from a state with consecutive_failures >= T, the run
\* never holds more than T failed attempts in a row, and a loop stopped by
\* the breaker leaves its remaining recipients unattempted and unlogged;
\* with the breaker disabled the check is false whatever the counter and
\* the loop never stops on it.
BreakerArmed ==
    config.loaded /\ config.enable_circuit_breaker
        /\ config.max_consecutive_failures >= 1

C3_AttemptStep ==
    (BreakerArmed /\ outcomes' # outcomes)
        => consecutive_failures < config.max_consecutive_failures

C3_State ==
    /\ BreakerArmed
         => /\ TrailingFailures(outcomes) <= config.max_consecutive_failures
            /\ consecutive_failures <= config.max_consecutive_failures
    /\ (BreakerArmed /\ loop_exit = "breaker")
         => /\ Attempted = {recipients[k] : k \in 1..idx}
            /\ Logged(logs) = Attempted
    /\ (config.loaded /\ ~config.enable_circuit_breaker)
         => /\ loop_exit # "breaker"
            /\ ~CheckCircuitBreaker(config.enable_circuit_breaker,
                                    consecutive_failures,
                                    config.max_consecutive_failures)

C3_CircuitBreaker == [] C3_State /\ [][C3_AttemptStep]_vars

\* The breaker has stopped the loop after T failures, recipients left over.
C3_Witness ==
    /\ loop_exit = "breaker"
    /\ BreakerArmed
    /\ TrailingFailures(outcomes) = config.max_consecutive_failures
    /\ idx < Len(recipients)

\* ------------------------------------------------------------------- C4
\* C4: at every point of the loop where the iterations made so far are
\* complete, consecutive_failures is the number of failed attempts since
\* the latest successful one (since the start when there is none); it is
\* never negative; and a loop stopped by a breaker of threshold T >= 1 has
\* its last T attempts all failed. While the outcome of the attempt in
\* hand is not yet recorded (or its recording was cut short by an
\* exception) the counter still holds the value for the attempts before it.
Front(h) == SubSeq(h, 1, Len(h) - 1)

RecordingPending == pc = "log_result" \/ raised_at = "log_result"

C4_ConsecutiveFailures ==
    /\ consecutive_failures >= 0
    /\ consecutive_failures =
          TrailingFailures(IF RecordingPending THEN Front(outcomes) ELSE outcomes)
    /\ (BreakerArmed /\ loop_exit = "breaker")
          => \A k \in 1..Len(outcomes) :
                k > Len(outcomes) - config.max_consecutive_failures
                   => ~outcomes[k].success

\* Two failures separated by a success: the counter shows 1, not 2.
C4_Witness ==
    /\ pc = "loop_head"
    /\ Len(outcomes) = 3
    /\ ~outcomes[1].success /\ outcomes[2].success /\ ~outcomes[3].success
    /\ consecutive_failures = 1

\* ------------------------------------------------------------------- C5
\* C5: at the end of each loop iteration the log holds exactly one record
\* per delivery attempt made so far, in order, for the recipient attempted
\* and with status sent or failed as the attempt went; and in every state
\* no recipient that was not attempted has a record.
IterationDone == pc \in {"pace", "loop_head", "print_summary"}

C5_OneRecordPerAttempt ==
    /\ Logged(logs) \subseteq Attempted
    /\ Len(logs) <= Len(outcomes)
    /\ IterationDone
         => /\ Len(logs) = Len(outcomes)
            /\ \A k \in 1..Len(outcomes) :
                  /\ logs[k].recipient = outcomes[k].recipient
                  /\ logs[k].status =
                        (IF outcomes[k].success THEN "sent" ELSE "failed")

C5_Witness ==
    /\ pc = "loop_head"
    /\ Len(outcomes) = 3
    /\ Len(logs) = 3
    /\ logs[1].status = "failed" /\ logs[2].status = "sent"
    /\ idx < Len(recipients)

\* ------------------------------------------------------------------- C6
\* C6: driver.quit() is never called twice; when run has returned it has
\* been called exactly once if a driver was started and not at all
\* otherwise, whatever the exit path; and every delivery attempt is made
\* with the driver started and not yet quit.
DriverStarted == auth.driver # "none"

\* Exit paths on which the driver was started.
ExitNormal == pc = "done" /\ result = "True" /\ loop_exit = "exhausted"

ExitEarlyStop == pc = "done" /\ result = "True" /\ loop_exit \in {"limit", "breaker"}

ExitAuthFailed ==
    pc = "done" /\ raised = "none" /\ result = "False" /\ DriverStarted

ExitException == pc = "done" /\ raised = "Exception" /\ raised_at = "log_result"

ExitInterrupt == pc = "done" /\ raised = "KeyboardInterrupt" /\ DriverStarted

C6_State ==
    /\ quit_count <= 1
    /\ (ExitNormal \/ ExitEarlyStop \/ ExitAuthFailed \/ ExitException
          \/ ExitInterrupt) => quit_count = 1
    /\ auth.driver = "open" => quit_count = 0
    /\ pc = "done" => quit_count = (IF DriverStarted THEN 1 ELSE 0)
    /\ pc = "done" => auth.driver # "open"

C6_AttemptStep == outcomes' # outcomes => auth.driver = "open" /\ quit_count = 0

C6_ReleasedOnce == [] C6_State /\ [][C6_AttemptStep]_vars

\* Authentication failed after the driver was started, and it was quit.
C6_Witness == ExitAuthFailed /\ site_login = "failed" /\ quit_count = 1

\* ------------------------------------------------------------------- C7
\* C7: when run has returned after a KeyboardInterrupt raised inside the
\* send loop, the session summary has been emitted with the counts of the
\* records logged so far, and the browser session has been released.
LoopPcs == {"loop_head", "send_message", "log_result", "pace"}

RECURSIVE NumStatus(_, _)
NumStatus(ls, status) ==
    IF ls = << >>
       THEN 0
       ELSE (IF ls[1].status = status THEN 1 ELSE 0) + NumStatus(Tail(ls), status)

SummaryMatchesLogs ==
    /\ summary.emitted
    /\ summary.sent = NumStatus(logs, "sent")
    /\ summary.failed = NumStatus(logs, "failed")
    /\ summary.skipped = NumStatus(logs, "skipped")
    /\ summary.total = summary.sent + summary.failed + summary.skipped

C7_InterruptFlushesSummary ==
    (pc = "done" /\ raised = "KeyboardInterrupt" /\ raised_at \in LoopPcs)
        => /\ SummaryMatchesLogs
           /\ auth.driver = "quit"
           /\ quit_count = 1

\* ------------------------------------------------------------------- C8
\* C8: once the loop has ended for one of its three reasons and run has
\* gone on to its finally clause without an exception, a summary has been
\* emitted and run returns True; and a summary, whenever emitted, follows
\* the end of the loop and carries the numbers of sent, failed and skipped
\* records in the log, its total being their sum and the log's length.
LoopEnded == loop_exit \in {"exhausted", "limit", "breaker"}

C8_SummaryAfterLoop ==
    /\ (LoopEnded /\ pc \in {"cleanup", "done"} /\ raised = "none")
          => summary.emitted /\ result = "True"
    /\ summary.emitted
          => /\ LoopEnded
             /\ SummaryMatchesLogs
             /\ summary.total = Len(logs)

\* A breaker-stopped run with records of both statuses, summarised.
C8_Witness ==
    /\ pc = "done"
    /\ loop_exit = "breaker"
    /\ summary.emitted
    /\ summary.sent >= 1
    /\ summary.failed >= 2

\* ------------------------------------------------------------------- C9
\* C9: a delivery attempt or an outcome record exists only after the
\* configuration was loaded, a non-empty recipient list was loaded and the
\* site accepted the session, these three having happened in that order;
\* and a run that ends with the configuration not loaded, or with
\* authentication begun and not accepted, returns False with no attempt
\* and no record.
AuthFailed == auth.exists /\ site_login # "ok"

C9_State ==
    /\ (outcomes # << >> \/ logs # << >>)
          => config.loaded /\ recipients # << >> /\ site_login = "ok"
    /\ site_login = "ok" => config.loaded /\ recipients # << >>
    /\ recipients # << >> => config.loaded
    /\ (pc = "done" /\ (~config.loaded \/ AuthFailed))
          => result = "False" /\ outcomes = << >> /\ logs = << >>

C9_Step ==
    /\ recipients' # recipients => config.loaded /\ ~auth.exists
    /\ auth' # auth /\ ~auth.exists => config.loaded /\ recipients # << >>
    /\ outcomes' # outcomes => site_login = "ok" /\ auth.authenticated

C9_NoSendBeforeAuth == [] C9_State /\ [][C9_Step]_vars

\* The login was rejected: run has returned False, nothing attempted.
C9_Witness ==
    /\ pc = "done"
    /\ site_login = "failed"
    /\ result = "False"
    /\ outcomes = << >>

\* ------------------------------------------------------------------ C10
\* C10: an attempt whose body ended in an Exception returns a failure
\* result without run seeing an exception; the logging step that follows
\* (when its own file write does not fail) appends exactly one failed
\* record for that recipient and adds 1 to consecutive_failures; and the
\* loop then returns to its head for the next iteration without a wait.
C10_Step ==
    /\ (pc = "send_message" /\ outcomes' # outcomes /\ last_outcome' = "exception")
          => /\ ~send_result'.success
             /\ messages_sent' = messages_sent
             /\ raised' = "none"
             /\ pc' = "log_result"
    /\ (pc = "log_result" /\ last_outcome = "exception" /\ raised' = "none")
          => /\ logs' = Append(logs, [recipient |-> recipients[idx],
                                      status |-> "failed"])
             /\ consecutive_failures' = consecutive_failures + 1
             /\ pc' = "pace"
    /\ (pc = "pace" /\ last_outcome = "exception" /\ raised' = "none")
          => /\ pc' = "loop_head"
             /\ waits' = waits
             /\ logs' = logs

C10_ExceptionBecomesFailure == [][C10_Step]_vars

\* After an attempt that raised, the next recipient is being attempted.
C10_Witness ==
    /\ pc = "send_message"
    /\ last_outcome = "exception"
    /\ idx = Len(outcomes) + 1
    /\ logs[Len(logs)] = [recipient |-> recipients[idx - 1], status |-> "failed"]
    /\ consecutive_failures >= 1
    /\ raised = "none"

\* ------------------------------------------------------------------ C11
\* C11: when the latest attempt failed, a next recipient exists, the
\* failures in a row are below the threshold (or the breaker is disabled)
\* and fewer than session_limit deliveries succeeded, the failed iteration
\* runs to the loop head and the step taken there (short of an interrupt)
\* takes the next recipient in hand, whose attempt is the step after; and
\* a loop that ended with recipients left ended on the limit or the breaker.
LastFailed == outcomes # << >> /\ ~outcomes[Len(outcomes)].success

HistBreakerOpen ==
    config.enable_circuit_breaker
        /\ TrailingFailures(outcomes) >= config.max_consecutive_failures

HistLimitReached == Successes(outcomes) >= config.session_limit

C11_Step ==
    /\ (pc = "log_result" /\ LastFailed /\ raised' = "none") => pc' = "pace"
    /\ (pc = "pace" /\ LastFailed /\ raised' = "none") => pc' = "loop_head"
    /\ ( /\ pc = "loop_head"
         /\ LastFailed
         /\ idx < Len(recipients)
         /\ ~HistBreakerOpen
         /\ ~HistLimitReached
         /\ raised' = "none" )
          => /\ pc' = "send_message"
             /\ idx' = idx + 1
             /\ loop_exit' = "none"
    /\ (pc = "send_message" /\ raised' = "none")
          => /\ Len(outcomes') = Len(outcomes) + 1
             /\ outcomes'[Len(outcomes')].recipient = recipients[idx]

C11_State ==
    (LoopEnded /\ idx < Len(recipients)) => HistBreakerOpen \/ HistLimitReached

C11_FailureIsolated == [] C11_State /\ [][C11_Step]_vars

\* With the breaker enabled, two failures in, the third recipient is attempted.
C11_Witness ==
    /\ pc = "log_result"
    /\ config.enable_circuit_breaker
    /\ Len(outcomes) = 3
    /\ ~outcomes[1].success /\ ~outcomes[2].success
    /\ outcomes[3].recipient = recipients[3]

\* ------------------------------------------------------------------ C12
\* C12: the number of wait_human_delay calls equals the number of
\* completed iterations whose delivery succeeded and whose recipient is
\* not the last of the list; a wait is made only in the pacing step of
\* such an iteration, and the pacing step of such an iteration (short of
\* an interrupt) always makes it.
PacingPending == pc \in {"log_result", "pace"} \/ raised_at \in {"log_result", "pace"}

WaitsDue(h) ==
    Cardinality({k \in 1..Len(h) :
                    h[k].success /\ h[k].recipient # recipients[Len(recipients)]})

LastWaitDue ==
    /\ outcomes # << >>
    /\ outcomes[Len(outcomes)].success
    /\ outcomes[Len(outcomes)].recipient # recipients[Len(recipients)]

C12_State ==
    waits = WaitsDue(IF PacingPending THEN Front(outcomes) ELSE outcomes)

C12_Step ==
    /\ waits' # waits => pc = "pace" /\ LastWaitDue /\ waits' = waits + 1
    /\ (pc = "pace" /\ LastWaitDue /\ raised' = "none") => waits' = waits + 1

C12_WaitIffSuccessNotLast == [] C12_State /\ [][C12_Step]_vars

\* Three recipients: sent, failed, sent; one wait, after the first only.
C12_Witness ==
    /\ pc = "loop_head"
    /\ Len(recipients) = 3
    /\ Len(outcomes) = 3
    /\ outcomes[1].success /\ ~outcomes[2].success /\ outcomes[3].success
    /\ waits = 1

\* ------------------------------------------------------------------ C13
\* C13: after any sequence of logging calls on a logger, the three count
\* queries return the number of calls made with each status, the counts
\* add up to len(logs), logs holds the calls' statuses in call order, and
\* a call leaves every record already in logs in place and unchanged.
CallsWith(status) ==
    Cardinality({k \in 1..Len(log_calls) : log_calls[k] = status})

C13_State ==
    pc = "logger_ready"
       => /\ GetMessageCount(logs) = CallsWith("sent")
          /\ GetFailedCount(logs) = CallsWith("failed")
          /\ GetSkippedCount(logs) = CallsWith("skipped")
          /\ GetMessageCount(logs) + GetFailedCount(logs) + GetSkippedCount(logs)
                = Len(logs)
          /\ Len(logs) = Len(log_calls)
          /\ \A k \in 1..Len(logs) : logs[k].status = log_calls[k]

C13_Step ==
    pc = "logger_ready"
       => /\ Len(logs') >= Len(logs)
          /\ \A k \in 1..Len(logs) : logs'[k] = logs[k]

C13_CountsMatchCalls == [] C13_State /\ [][C13_Step]_vars

C13_Witness ==
    /\ pc = "logger_ready"
    /\ Len(log_calls) = 4
    /\ GetMessageCount(logs) = 2
    /\ GetFailedCount(logs) = 1
    /\ GetSkippedCount(logs) = 1

\* ------------------------------------------------------------------ C14
\* C14: for a logger constructed on a path that was absent or held an
\* empty file, after k logging calls the file is the header row followed
\* by exactly k data rows, the rows of logs[1..k] in that order.
StartedFresh == \A k \in 1..Len(log_file.rows) : log_file.rows[k] # OldRow

C14_HeaderThenRows ==
    (pc = "logger_ready" /\ StartedFresh)
       => /\ log_file.exists
          /\ log_file.header
          /\ Len(log_file.rows) = Len(logs)
          /\ \A k \in 1..Len(logs) :
                /\ log_file.rows[k].recipient_name = logs[k].recipient
                /\ log_file.rows[k].status = logs[k].status

\* ------------------------------------------------------------------ C15
\* C15: a configuration that fails any of min_delay >= 0, min_delay <=
\* max_delay, page_load_min >= 0, page_load_min <= page_load_max, typing
\* speed > 0, daily and session caps positive, breaker threshold positive,
\* retry attempts non-negative, templates non-empty is rejected: run
\* returns False, no Config is kept and no component is initialised.
SettingsValid(s) ==
    /\ s.min_delay >= 0
    /\ s.min_delay <= s.max_delay
    /\ s.page_load_min >= 0
    /\ s.page_load_min <= s.page_load_max
    /\ s.typing_speed > 0
    /\ s.daily_limit > 0
    /\ s.session_limit > 0
    /\ s.max_consecutive_failures > 0
    /\ s.retry_attempts >= 0
    /\ s.templates > 0

C15_InvalidConfigRejected ==
    (~SettingsValid(settings) /\ pc # "load_config")
       => /\ pc \in {"cleanup", "done"}
          /\ result = "False"
          /\ ~config.loaded
          /\ ~logger_ready

\* ------------------------------------------------------------------ C16
\* A field that is empty once whitespace is stripped, and a field that is
\* a LinkedIn /in/ profile URL once whitespace is stripped.
Blank(v) == v \in {None, "", "  "}

IsProfileUrl(v) == v \in {UrlAnn, UrlBob, UrlBobPadded}

RequiredFieldsBad(row) ==
    \/ Blank(row.first_name)
    \/ Blank(row.last_name)
    \/ Blank(row.profile_url)
    \/ ~IsProfileUrl(row.profile_url)

RowAccepted(row) == ~row.surplus /\ ~RequiredFieldsBad(row)

ValidRows(f) == SelectSeq(f, RowAccepted)

ValidUpTo(f, k) == Cardinality({j \in 1..k : RowAccepted(f[j])})

RecipientOf(row) ==
    [first_name |-> Cleaned(row.first_name), last_name |-> Cleaned(row.last_name),
     profile_url |-> Cleaned(row.profile_url)]

Min(a, b) == IF a < b THEN a ELSE b

TruncatedAt(limit) ==
    pc = "csv_done"
       => /\ Len(csv_recipients) <= limit
          /\ Len(csv_recipients) = Min(limit, Len(ValidRows(csv_file)))
          /\ \A k \in 1..Len(csv_recipients) :
                csv_recipients[k] = RecipientOf(ValidRows(csv_file)[k])
          /\ \A e \in 1..Len(csv_errors) :
                ValidUpTo(csv_file, csv_errors[e].row - 1) < limit

\* C16 as stated: load_connections returns at most max_connections
\* recipients, namely the first min(max_connections, number of valid rows)
\* valid rows in file order, and no row after the truncation point
\* contributes a recipient or an error.
C16_FirstMaxValidRows == TruncatedAt(csv_max)

\* C16, amended: the same with max(max_connections, 0) as the limit; a
\* negative max_connections yields the empty list and no error.
C16_FirstMaxValidRowsClamped ==
    TruncatedAt(IF csv_max < 0 THEN 0 ELSE csv_max)

C16_Witness ==
    /\ pc = "csv_done"
    /\ csv_max >= 1
    /\ Len(csv_recipients) = csv_max
    /\ csv_pos < Len(csv_file)
    /\ RowAccepted(csv_file[Len(csv_file)])

\* ------------------------------------------------------------------ C17
RowRejected(k) == \E e \in 1..Len(csv_errors) : csv_errors[e].row = k

LoadNotAborted ==
    pc = "csv_done"
       => \/ csv_pos = Len(csv_file)
          \/ Len(csv_recipients) >= csv_max

\* C17 as stated: every row examined yields exactly one of a recipient or
\* an error, a row is rejected exactly when a required field is empty
\* after stripping or profile_url is not a LinkedIn /in/ profile URL, and
\* the load goes on after a malformed row.
C17_RejectedIffFieldsBad ==
    /\ Len(csv_recipients) + Len(csv_errors) = csv_pos
    /\ \A k \in 1..csv_pos : RowRejected(k) <=> RequiredFieldsBad(csv_file[k])
    /\ LoadNotAborted

\* C17, amended: a row is rejected exactly when a required field is empty
\* after stripping, profile_url is not a LinkedIn /in/ profile URL, or the
\* row has more fields than the header.
C17_RejectedIffMalformed ==
    /\ Len(csv_recipients) + Len(csv_errors) = csv_pos
    /\ \A k \in 1..csv_pos :
          RowRejected(k) <=> (RequiredFieldsBad(csv_file[k]) \/ csv_file[k].surplus)
    /\ LoadNotAborted

C17_Witness ==
    /\ pc = "csv_done"
    /\ csv_pos = Len(csv_file)
    /\ Len(csv_errors) = 1
    /\ csv_errors[1].row = 1
    /\ csv_file[1].surplus
    /\ Len(csv_recipients) = 2

\* ------------------------------------------------------------------ C18
\* raw = min(base_delay * 2^attempt, max_delay), in seconds
RawOf(attempt) == Min(bk_base * (2 ^ attempt), bk_max)

InRange(call, lo, hi10) ==
    /\ call.value >= lo * Scale
    /\ 10 * call.value <= hi10 * Scale

\* C18: exponential_backoff returns a value in [raw, 1.1 * raw]; for base
\* 5 and max 300 that is [5, 5.5] at attempt 0, [10, 11] at attempt 1,
\* [20, 22] at attempt 2 and [300, 330] at attempt 10.
C18_WithinJitterBand ==
    bk_last.called
       => /\ InRange(bk_last, RawOf(bk_last.attempt), 11 * RawOf(bk_last.attempt))
          /\ (bk_base = 5 /\ bk_max = 300)
                => /\ bk_last.attempt = 0 => InRange(bk_last, 5, 55)
                   /\ bk_last.attempt = 1 => InRange(bk_last, 10, 110)
                   /\ bk_last.attempt = 2 => InRange(bk_last, 20, 220)
                   /\ bk_last.attempt = 10 => InRange(bk_last, 300, 3300)

C18_Witness ==
    /\ bk_base = 5
    /\ bk_max = 300
    /\ bk_last.called
    /\ bk_last.attempt = 10
    /\ bk_last.value = 330 * Scale
    /\ bk_prev.called
    /\ bk_prev.attempt = 0
    /\ bk_prev.value = 5 * Scale

\* ------------------------------------------------------------------ C19
EarlierThenLater ==
    /\ bk_prev.called
    /\ bk_last.called
    /\ bk_prev.attempt < bk_last.attempt

Uncapped(attempt) == bk_base * (2 ^ attempt) <= bk_max

Capped(attempt) == bk_base * (2 ^ attempt) >= bk_max

\* C19 as stated: for attempts a < b the value for a is at most the value
\* for b while the cap is not reached, and the values tie once capped.
C19_MonotonicThenTies ==
    EarlierThenLater
       => /\ Uncapped(bk_last.attempt) => bk_prev.value <= bk_last.value
          /\ Capped(bk_prev.attempt) => bk_prev.value = bk_last.value

\* C19, amended: for attempts a < b the value for a is at most the value
\* for b while b is not past the cap; once a is capped both values lie in
\* [max_delay, 1.1 * max_delay] and need not be equal.
C19_MonotonicThenBand ==
    EarlierThenLater
       => /\ Uncapped(bk_last.attempt) => bk_prev.value <= bk_last.value
          /\ Capped(bk_prev.attempt)
                => /\ InRange(bk_prev, bk_max, 11 * bk_max)
                   /\ InRange(bk_last, bk_max, 11 * bk_max)

C19_Witness ==
    /\ EarlierThenLater
    /\ Capped(bk_prev.attempt)
    /\ bk_base <= bk_max
    /\ bk_prev.value > bk_last.value

\* ------------------------------------------------------------------ C20
\* C20 as stated: exponential_backoff(0, base_delay, max_delay) is at
\* least base_delay, and every result is at most 1.1 * max_delay.
C20_FloorAndCeiling ==
    bk_last.called
       => /\ bk_last.attempt = 0 => bk_last.value >= bk_base * Scale
          /\ 10 * bk_last.value <= 11 * bk_max * Scale

\* C20, amended: exponential_backoff(0, base_delay, max_delay) is at least
\* min(base_delay, max_delay), and every result is at most 1.1 * max_delay.
C20_MinFloorAndCeiling ==
    bk_last.called
       => /\ bk_last.attempt = 0 => bk_last.value >= Min(bk_base, bk_max) * Scale
          /\ 10 * bk_last.value <= 11 * bk_max * Scale

C20_Witness ==
    /\ bk_last.called
    /\ bk_last.attempt = 0
    /\ bk_max < bk_base
    /\ bk_last.value = bk_max * Scale

\* ------------------------------------------------------------------ C21
Within(call, lo, hi) ==
    /\ call.outcome = "returned"
    /\ lo * call.den <= call.num
    /\ call.num <= hi * call.den

\* C21: with 0 <= min_delay <= max_delay, human_delay returns a value in
\* [min_delay, max_delay]; with 0 <= page_load_min <= page_load_max,
\* page_load_delay returns a value in [page_load_min, page_load_max].
C21_DelaysWithinRange ==
    /\ (/\ th_last.op \in {"human_delay", "wait_human_delay"}
        /\ 0 <= throttler.min_delay
        /\ throttler.min_delay <= throttler.max_delay)
          => Within(th_last, throttler.min_delay, throttler.max_delay)
    /\ (/\ th_last.op \in {"page_load_delay", "wait_page_load"}
        /\ 0 <= throttler.page_load_min
        /\ throttler.page_load_min <= throttler.page_load_max)
          => Within(th_last, throttler.page_load_min, throttler.page_load_max)

C21_Witness ==
    /\ th_last.op = "human_delay"
    /\ throttler.min_delay < throttler.max_delay
    /\ th_last.num = throttler.max_delay * th_last.den

\* ------------------------------------------------------------------ C22
TypingOps == {"typing_delay", "wait_typing_delay"}

\* C22: for message_length >= 0 and typing speed > 0, typing_delay returns
\* a value in [0.8 * base, 1.2 * base] with base = message_length / speed,
\* which is [16, 24] for length 100 at speed 5, and never a negative one.
C22_TypingWithinTwentyPercent ==
    (th_last.op \in TypingOps /\ throttler.typing_speed > 0)
       => /\ th_last.outcome = "returned"
          /\ th_last.den > 0
          /\ 4 * th_last.length * th_last.den
                <= 5 * throttler.typing_speed * th_last.num
          /\ 5 * throttler.typing_speed * th_last.num
                <= 6 * th_last.length * th_last.den
          /\ th_last.num >= 0
          /\ (th_last.length = 100 /\ throttler.typing_speed = 5)
                => Within(th_last, 16, 24)

C22_Witness ==
    /\ th_last.op = "typing_delay"
    /\ th_last.length = 100
    /\ throttler.typing_speed = 5
    /\ th_last.num = 24 * th_last.den

\* ------------------------------------------------------------------ C23
\* C23: with typing speed 0, typing_delay and wait_typing_delay end in an
\* error, return no delay value and start no sleep.
C23_ZeroSpeedRaises ==
    (th_last.op \in TypingOps /\ throttler.typing_speed = 0)
       => /\ th_last.outcome = "ZeroDivisionError"
          /\ ~th_last.slept

C23_Witness ==
    /\ th_last.op = "wait_typing_delay"
    /\ throttler.typing_speed = 0
    /\ th_last.length = 100
    /\ th_last.outcome = "ZeroDivisionError"

\* ------------------------------------------------------------------ C24
Vocabulary == {"first_name", "last_name", "company", "position", "location"}

\* The value the claim gives each placeholder
FieldValue(name, r) ==
    CASE name = "first_name" -> r.first_name
      [] name = "last_name" -> r.last_name
      [] name = "company" ->
            IF r.company = << >> THEN <<"your", " ", "company">> ELSE r.company
      [] name = "position" ->
            IF r.position = << >> THEN <<"your", " ", "field">> ELSE r.position
      [] name = "location" ->
            IF r.location = << >> THEN <<"your", " ", "area">> ELSE r.location

\* One pass over the template, every placeholder replaced at once
RECURSIVE Simultaneous(_, _)
Simultaneous(t, r) ==
    IF t = << >> THEN << >>
    ELSE IF /\ Len(t) >= 3
            /\ t[1] = "{"
            /\ t[2] \in Vocabulary
            /\ t[3] = "}"
         THEN FieldValue(t[2], r) \o Simultaneous(SubSeq(t, 4, Len(t)), r)
         ELSE <<t[1]>> \o Simultaneous(Tail(t), r)

\* C24: replace_placeholders returns the one-pass simultaneous
\* substitution of the template (defaults for absent optional fields);
\* text inserted from a field is never itself substituted.
C24_SimultaneousSubstitution ==
    ph_message.returned
       => ph_message.value = Simultaneous(ph_template, ph_recipient)

\* ------------------------------------------------------------------ C25
\* End of the {name} token that starts at position i of t, 0 if none does
TokenEnd(t, i) ==
    IF /\ t[i] = "{"
       /\ \E j \in (i + 2)..Len(t) :
             /\ t[j] = "}"
             /\ \A m \in (i + 1)..(j - 1) : t[m] \notin {"{", "}", " "}
       THEN CHOOSE j \in (i + 2)..Len(t) :
               /\ t[j] = "}"
               /\ \A m \in (i + 1)..(j - 1) : t[m] \notin {"{", "}", " "}
       ELSE 0

Unrecognised(t, i) ==
    /\ TokenEnd(t, i) # 0
    /\ ~(TokenEnd(t, i) = i + 2 /\ t[i + 1] \in Vocabulary)

\* Names of the unrecognised tokens of t from position i on, in order
RECURSIVE UnrecognisedFrom(_, _)
UnrecognisedFrom(t, i) ==
    IF i > Len(t) THEN << >>
    ELSE IF Unrecognised(t, i)
            THEN <<SubSeq(t, i + 1, TokenEnd(t, i) - 1)>>
                    \o UnrecognisedFrom(t, i + 1)
            ELSE UnrecognisedFrom(t, i + 1)

\* An unrecognised token of the template that is still in the output
Kept(t, i, out) ==
    \E o \in 1..Len(out) :
       /\ o + TokenEnd(t, i) - i <= Len(out)
       /\ SubSeq(out, o, o + TokenEnd(t, i) - i) = SubSeq(t, i, TokenEnd(t, i))

\* C25: validate_placeholders returns exactly the {name} tokens whose name
\* is outside the five-name vocabulary, and replace_placeholders leaves
\* every such token in its output.
C25_InvalidTokensReportedAndKept ==
    /\ ph_invalid.returned
          => ph_invalid.value = UnrecognisedFrom(ph_template, 1)
    /\ ph_message.returned
          => \A i \in 1..Len(ph_template) :
                Unrecognised(ph_template, i)
                   => Kept(ph_template, i, ph_message.value)

C25_Witness ==
    /\ ph_invalid.returned
    /\ ph_message.returned
    /\ ph_template = <<"{", "foo", "}", "{">>
    /\ ph_invalid.value = << <<"foo">> >>

\* ------------------------------------------------------------------ C26
AuthPcs == {"authenticate", "auth_load_session", "auth_verify_session",
            "auth_login"}

\* is_authenticated() holds only between a True return of authenticate
\* (the site showed the feed) and close().
C26_State ==
    (auth.authenticated /\ auth.driver # "none")
       => /\ site_login = "ok"
          /\ pc \notin AuthPcs
          /\ quit_count = 0
          /\ auth.driver = "open"

C26_Step ==
    /\ (pc' = "auth_verify_session" /\ pc # "auth_verify_session")
          => pc = "auth_load_session" /\ session_file
    /\ (pc' = "auth_login" /\ pc # "auth_login")
          => pc \in {"auth_load_session", "auth_verify_session"}
    /\ site_login' = "failed" => pc \in {"auth_login", "cleanup", "done"}
    /\ (pc \in AuthPcs /\ pc' = "send_setup") => site_login' = "ok"
    /\ (pc \in AuthPcs /\ site_login' = "ok") => pc' = "send_setup"
    /\ session_file' # session_file
          => pc = "auth_login" /\ site_login' = "ok" /\ session_file'

\* C26: authenticate tries the persisted session first and logs in with
\* credentials only when no session was loaded or the loaded one failed
\* verification; it returns True exactly when a session verified or the
\* login succeeded; the session is saved only after a successful fresh
\* login; is_authenticated() holds only after a True return and before
\* close().
C26_SessionFirstThenLogin == [] C26_State /\ [][C26_Step]_vars

C26_Witness ==
    /\ pc = "done"
    /\ site_login = "ok"
    /\ session_file
    /\ auth.driver = "quit"
    /\ ~auth.authenticated
    /\ quit_count = 1
    /\ result = "True"

\* ------------------------------------------------------------------ C27
C27_State ==
    /\ Len(logs) <= Len(recipients)
    /\ \A k \in 1..Len(logs) : logs[k].recipient = recipients[k]
    /\ \A k \in 1..Len(outcomes) : outcomes[k].recipient = recipients[k]

C27_Step ==
    Len(outcomes') > Len(outcomes)
       => /\ Len(outcomes') = Len(outcomes) + 1
          /\ Len(logs) = Len(outcomes)
          /\ waits = WaitsDue(outcomes)
          /\ pc = "send_message"

\* C27: recipients are processed one at a time in list order: the logged
\* recipients are a prefix of the list in the same order, and the attempt
\* for recipient i+1 starts only after the outcome of recipient i has been
\* logged and its pacing wait, if one was due, is over.
C27_StrictlySequential == [] C27_State /\ [][C27_Step]_vars

C27_Witness ==
    /\ pc = "log_result"
    /\ Len(outcomes) = 3
    /\ Len(logs) = 2
    /\ waits = 1
    /\ logs[1].status = "sent"
    /\ logs[2].status = "failed"

\* ------------------------------------------------------------------ C28
LogWriteFailed == raised = "Exception" /\ raised_at = "log_result"

C28_State ==
    LogWriteFailed
       => /\ pc \in {"cleanup", "done"}
          /\ result = "False"
          /\ pc = "done" => quit_count = 1 /\ auth.driver = "quit"

C28_Step == LogWriteFailed => outcomes' = outcomes /\ idx' = idx

\* C28: when writing an outcome record to the log file fails in the send
\* loop, no further recipient is attempted, run returns False and the
\* browser is released.
C28_LogWriteFailureFatal == [] C28_State /\ [][C28_Step]_vars

C28_Witness ==
    /\ LogWriteFailed
    /\ pc = "done"
    /\ idx < Len(recipients)
    /\ quit_count = 1

\* ------------------------------------------------------------------ C29
\* C29: at the start of every send-loop iteration messages_sent equals the
\* number of 'sent' records held by the logger.
C29_TalliesAgree ==
    pc = "loop_head" => messages_sent = NumStatus(logs, "sent")

C29_Witness ==
    /\ pc = "loop_head"
    /\ messages_sent = 2
    /\ Len(logs) = 3
    /\ NumStatus(logs, "failed") = 1

\* ------------------------------------------------------------------ C30
\* C30: in dry-run mode, and when no valid recipient was loaded, run never
\* starts the browser, attempts no delivery and appends no outcome record;
\* a dry run with at least one recipient returns True and a run without
\* recipients returns False (a Ctrl-C aside).
C30_DryRunAndEmptyFrame ==
    /\ (dry_run \/ recipients = << >>)
          => /\ auth = NoAuth
             /\ quit_count = 0
             /\ outcomes = << >>
             /\ logs = << >>
             /\ log_file.rows = << >>
    /\ (pc = "done" /\ raised = "none" /\ dry_run /\ recipients # << >>)
          => result = "True"
    /\ (pc = "done" /\ recipients = << >>) => result = "False"

C30_DryRunWitness ==
    /\ pc = "done"
    /\ dry_run
    /\ recipients # << >>
    /\ result = "True"
    /\ logger_ready

====
